---- MODULE Spec2Model ----
(***************************************************************************)
(* Model of main_loop in Experts/FXAtomaticTrading.py: the cyclic control  *)
(* loop of the trading robot (fetch, signal, time gate, exposure gate,     *)
(* ATR check, stop/target, lot sizing, order placement, throttle stamp),   *)
(* its try/except/finally lifecycle and the asynchronous KeyboardInterrupt.*)
(*                                                                         *)
(* Numbers.  Prices are binary64 floats in the program.  They are modelled *)
(* as integers counted in half ATR-units, and the result of an addition or *)
(* subtraction next to a price is rounded to the grid of spacing Ulp, the  *)
(* way a float sum is rounded to the spacing of representable numbers near *)
(* the price (a small addend is absorbed).  NaN is a distinguished value   *)
(* that every comparison rejects and every arithmetic operation keeps.     *)
(*                                                                         *)
(* Time.  datetime.now() reads the naive local wall clock: it normally     *)
(* moves forward and can be set back (DST fall-back, clock adjustment).    *)
(***************************************************************************)
EXTENDS Integers, FiniteSets, Sequences, TLC

\* ---------------------------------------------------------------- bounds
MaxTime == 4          \* wall-clock readings are 1..MaxTime
MaxAtr == 3           \* valid ATR readings are 1..MaxAtr
MaxOpen == 1          \* positions opened elsewhere stop at MaxOpen
MaxPriceK == 3        \* quotes are 3*Ulp .. MaxPriceK*Ulp, and the scenario quote

\* ------------------------------------------------------- values and CONFIG
None == 0             \* last_trade_time = None (clock readings are >= 1)
NaN == 999            \* float NaN
Ulp == 6              \* spacing of representable prices near a quote
ScenarioEntry == 4800 \* the quote 1.2000 in units of 0.00025 (ATR 0.0010 = 2)

min_seconds_between_trades == 2
max_positions == 1
atr_multiplier_sl == 3    \* 1.5, in halves
atr_multiplier_tp == 6    \* 3.0, in halves
risk_per_trade == 10
point_value == 1

Signals == {"buy", "sell", "none"}
AtrValues == {NaN, -3, 0} \cup (1..MaxAtr)
Prices == {k * Ulp : k \in 3..MaxPriceK} \cup {ScenarioEntry}
Retcodes == {"done", "rejected"}

\* ------------------------------------------------------------ float helpers
IsNaN(x) == x = NaN
Lt(a, b) == ~IsNaN(a) /\ ~IsNaN(b) /\ a < b
Leq(a, b) == ~IsNaN(a) /\ ~IsNaN(b) /\ a <= b

\* round to the nearest multiple of Ulp, ties to the even multiple
RoundToGrid(x) ==
    LET q == x \div Ulp
        r == x % Ulp
    IN  IF 2 * r < Ulp THEN q * Ulp
        ELSE IF 2 * r > Ulp THEN (q + 1) * Ulp
        ELSE IF q % 2 = 0 THEN q * Ulp ELSE (q + 1) * Ulp

FMul(c, x) == IF IsNaN(x) THEN NaN ELSE c * x
FAdd(a, b) == IF IsNaN(a) \/ IsNaN(b) THEN NaN ELSE RoundToGrid(a + b)
FSub(a, b) == IF IsNaN(a) \/ IsNaN(b) THEN NaN ELSE RoundToGrid(a - b)
FAbs(x) == IF IsNaN(x) THEN NaN ELSE IF x < 0 THEN -x ELSE x

\* ------------------------------------------------------------------- state
VARIABLES pc, connected, exc, interrupted, clock, last_trade_time, now,
          signal, atr, open_pos, entry_price, sl_price, tp_price, lots, res,
          dry_run, called, order_sent, place_calls, sleeps, last_place_time,
          positions

vars == <<pc, connected, exc, interrupted, clock, last_trade_time, now,
          signal, atr, open_pos, entry_price, sl_price, tp_price, lots, res,
          dry_run, called, order_sent, place_calls, sleeps, last_place_time,
          positions>>

cycleVars == <<signal, atr, open_pos, entry_price, sl_price, tp_price, lots, res, now>>
\* calls made in the current iteration, broker calls made so far
ghostVars == <<called, order_sent, place_calls, sleeps, last_place_time, positions>>
\* the same without called and order_sent
countVars == <<place_calls, sleeps, last_place_time, positions>>

\* positions inside the try block (lines 21..83)
TryPcs == {"fetch", "throttle", "count", "signal", "atr", "quote", "lots",
           "place", "stamp", "sleep5", "sleep10"}

\* ------------------------------------------------- decisions of main_loop
TimeGateRejects_off(last, n) == last # None /\ n - last < min_seconds_between_trades - 1

\* line 33
TimeGateRejects(last, n) == last # None /\ n - last < min_seconds_between_trades

ExposureGateRejects_gt(op) == op > max_positions

\* line 41
ExposureGateRejects(op) == op >= max_positions

AtrInvalid_nonan(a) == Leq(a, 0)

\* line 53
AtrInvalid(a) == IsNaN(a) \/ Leq(a, 0)

StopLoss_buyonly(sig, entry, a) == FSub(entry, FMul(atr_multiplier_sl, a))

\* lines 59..66
StopLoss(sig, entry, a) ==
    IF sig = "buy" THEN FSub(entry, FMul(atr_multiplier_sl, a))
    ELSE FAdd(entry, FMul(atr_multiplier_sl, a))

TakeProfit_slmult(sig, entry, a) ==
    IF sig = "buy" THEN FAdd(entry, FMul(atr_multiplier_sl, a))
    ELSE FSub(entry, FMul(atr_multiplier_sl, a))

TakeProfit(sig, entry, a) ==
    IF sig = "buy" THEN FAdd(entry, FMul(atr_multiplier_tp, a))
    ELSE FSub(entry, FMul(atr_multiplier_tp, a))

\* estimate_lots_by_sl: risk / (|entry - sl| * pointValue) in whole lots,
\* 0 ("no trade") when the stop distance is not positive or not a number
estimate_lots_by_sl(entry, sl) ==
    LET dist == FAbs(IF IsNaN(entry) \/ IsNaN(sl) THEN NaN ELSE entry - sl)
    IN  IF IsNaN(dist) \/ dist <= 0 THEN 0
        ELSE risk_per_trade \div (dist * point_value)

LotsRejected_lt(l) == l < 0

\* line 71
LotsRejected(l) == l <= 0

DryRunSkips_never(d) == FALSE

\* place_order: the dry-run guard in front of mt5.order_send
DryRunSkips(d) == d

SignalBranch_stamp(sig) == IF sig # "none" THEN "atr" ELSE "stamp"

SignalBranch_nosleep(sig) == IF sig # "none" THEN "atr" ELSE "fetch"

\* line 47: the body of the if, or straight to the sleep of line 83
SignalBranch(sig) == IF sig # "none" THEN "atr" ELSE "sleep10"

AfterPlacePc_retry(r) == IF r = "rejected" THEN "place" ELSE "stamp"

\* lines 2..7 and 78..79: place_order returns the result whatever the retcode
\* is, and the next statement is line 79
AfterPlacePc(r) == "stamp"

AfterDisconnectPc_loop(e) == IF e THEN "raised" ELSE "fetch"

\* line 88: the end of main_loop, or the pending exception propagates
AfterDisconnectPc(e) == IF e THEN "raised" ELSE "returned"

NextLastTradeTime_done(last, c, r) == IF r = "done" THEN c ELSE last

\* line 79
NextLastTradeTime(last, c, r) == c

\* ------------------------------------------------------------------ Init
Init ==
    /\ pc = "start"
    /\ connected = FALSE
    /\ exc = FALSE
    /\ interrupted = FALSE
    /\ clock \in 1..2
    /\ last_trade_time = None
    /\ now = None
    /\ signal = "none"
    /\ atr = NaN
    /\ open_pos = 0
    /\ entry_price = 0
    /\ sl_price = 0
    /\ tp_price = 0
    /\ lots = 0
    /\ res = "none"
    /\ dry_run \in BOOLEAN
    /\ called = {}
    /\ order_sent = FALSE
    /\ place_calls = 0
    /\ sleeps = 0
    /\ last_place_time = None
    /\ positions \in 0..max_positions

\* ---------------------------------------------------------------- actions
\* line 17: connect_mt5() returns
Connect ==
    /\ pc = "start"
    /\ pc' = "connected"
    /\ connected' = TRUE
    /\ UNCHANGED <<exc, interrupted, clock, last_trade_time, dry_run, cycleVars, ghostVars>>

\* line 17: connect_mt5() raises, nothing is connected
ConnectFails ==
    /\ pc = "start"
    /\ pc' = "raised"
    /\ UNCHANGED <<connected, exc, interrupted, clock, last_trade_time, dry_run, cycleVars, ghostVars>>

\* line 18, then the try block is entered
PrintConnected ==
    /\ pc = "connected"
    /\ pc' = "fetch"
    /\ UNCHANGED <<connected, exc, interrupted, clock, last_trade_time, dry_run, cycleVars, ghostVars>>

\* lines 23..28: fetch_ohlc, calc_indicators, generate_signal.  The locals of
\* the previous iteration (now, open_pos, entry_price, sl_price, tp_price,
\* lots, res) are dead here, each is assigned again before it is read: they
\* are cleared so that an iteration starts from one state.
FetchAndSignal ==
    /\ pc = "fetch"
    /\ pc' = "throttle"
    /\ signal' \in Signals
    /\ atr' \in AtrValues
    /\ called' = {}
    /\ now' = None /\ open_pos' = 0 /\ entry_price' = 0 /\ sl_price' = 0
    /\ tp_price' = 0 /\ lots' = 0 /\ res' = "none"
    /\ place_calls' = 0 /\ sleeps' = 0
    /\ UNCHANGED <<connected, exc, interrupted, clock, last_trade_time, dry_run, order_sent,
                   last_place_time, positions>>

\* lines 32..36
Throttle ==
    /\ pc = "throttle"
    /\ now' = clock
    /\ pc' = IF TimeGateRejects(last_trade_time, clock) THEN "sleep5" ELSE "count"
    /\ UNCHANGED <<connected, exc, interrupted, clock, last_trade_time, dry_run,
                   signal, atr, open_pos, entry_price, sl_price, tp_price, lots, res, ghostVars>>

\* lines 40..44
CheckOpenPositions ==
    /\ pc = "count"
    /\ open_pos' = positions
    /\ pc' = IF ExposureGateRejects(positions) THEN "sleep5" ELSE "signal"
    /\ called' = called \cup {"count"}
    /\ UNCHANGED <<connected, exc, interrupted, clock, last_trade_time, dry_run,
                   signal, atr, entry_price, sl_price, tp_price, lots, res, now, order_sent,
                   countVars>>

\* line 47
CheckSignal ==
    /\ pc = "signal"
    /\ pc' = SignalBranch(signal)
    /\ UNCHANGED <<connected, exc, interrupted, clock, last_trade_time, dry_run, cycleVars, ghostVars>>

\* lines 48..56
CheckAtr ==
    /\ pc = "atr"
    /\ pc' = IF AtrInvalid(atr) THEN "sleep5" ELSE "quote"
    /\ UNCHANGED <<connected, exc, interrupted, clock, last_trade_time, dry_run, cycleVars, ghostVars>>

\* lines 59..66: symbol_info_tick, stop and target
QuoteAndLevels ==
    /\ pc = "quote"
    /\ \E p \in Prices :
        /\ entry_price' = p
        /\ sl_price' = StopLoss(signal, p, atr)
        /\ tp_price' = TakeProfit(signal, p, atr)
    /\ called' = called \cup {"quote"}
    /\ pc' = "lots"
    /\ UNCHANGED <<connected, exc, interrupted, clock, last_trade_time, dry_run,
                   signal, atr, open_pos, lots, res, now, order_sent, countVars>>

\* lines 70..74
EstimateLots ==
    /\ pc = "lots"
    /\ lots' = estimate_lots_by_sl(entry_price, sl_price)
    /\ called' = called \cup {"lots"}
    /\ pc' = IF LotsRejected(lots') THEN "sleep5" ELSE "place"
    /\ UNCHANGED <<connected, exc, interrupted, clock, last_trade_time, dry_run,
                   signal, atr, open_pos, entry_price, sl_price, tp_price, res, now, order_sent,
                   countVars>>

\* line 78 and lines 2..7: place_order returns
PlaceOrder ==
    /\ pc = "place"
    /\ called' = called \cup {"place"}
    /\ IF DryRunSkips(dry_run)
         THEN res' = "skipped" /\ UNCHANGED order_sent
         ELSE res' \in Retcodes /\ order_sent' = TRUE
    /\ positions' = IF res' = "done" /\ positions <= MaxOpen THEN positions + 1 ELSE positions
    /\ place_calls' = IF place_calls < 2 THEN place_calls + 1 ELSE place_calls
    /\ last_place_time' = clock
    /\ pc' = AfterPlacePc(res')
    /\ UNCHANGED <<connected, exc, interrupted, clock, last_trade_time, dry_run,
                   signal, atr, open_pos, entry_price, sl_price, tp_price, lots, now, sleeps>>

\* line 79
StampTradeTime ==
    /\ pc = "stamp"
    /\ last_trade_time' = NextLastTradeTime(last_trade_time, clock, res)
    /\ pc' = "sleep10"
    /\ UNCHANGED <<connected, exc, interrupted, clock, dry_run, cycleVars, ghostVars>>

\* lines 35, 43, 55, 73 (sleep 5, continue) and line 83 (sleep 10)
Sleep ==
    /\ pc \in {"sleep5", "sleep10"}
    /\ pc' = "fetch"
    /\ sleeps' = sleeps + 1
    /\ UNCHANGED <<connected, exc, interrupted, clock, last_trade_time, dry_run, cycleVars,
                   called, order_sent, place_calls, last_place_time, positions>>

\* a call made inside the try block raises an exception other than
\* KeyboardInterrupt: fetch_ohlc (23), count_open_positions (40),
\* symbol_info_tick(...) returning None (60, 64), estimate_lots_by_sl (70),
\* place_order / mt5.order_send (78, 2).  No except clause matches: finally runs.
CallRaises ==
    /\ pc \in {"fetch", "count", "quote", "lots", "place"}
    /\ pc' = "finally"
    /\ exc' = TRUE
    /\ order_sent' = (order_sent \/ (pc = "place" /\ ~DryRunSkips(dry_run)))
    /\ UNCHANGED <<connected, interrupted, clock, last_trade_time, dry_run, cycleVars, called,
                   countVars>>

\* KeyboardInterrupt delivered while the try block runs: line 84
InterruptInTry ==
    /\ pc \in TryPcs
    /\ pc' = "except"
    /\ interrupted' = TRUE
    /\ UNCHANGED <<connected, exc, clock, last_trade_time, dry_run, cycleVars, ghostVars>>

\* KeyboardInterrupt delivered at line 17 or 18, before the try block
InterruptBeforeTry ==
    /\ pc \in {"start", "connected"}
    /\ pc' = "raised"
    /\ interrupted' = TRUE
    /\ UNCHANGED <<connected, exc, clock, last_trade_time, dry_run, cycleVars, ghostVars>>

\* KeyboardInterrupt delivered while the except clause (85) or the last print
\* (88) runs: it propagates, after the finally clause where that is still ahead
InterruptInHandler ==
    /\ pc \in {"except", "disconnected"}
    /\ pc' = IF pc = "except" THEN "finally" ELSE "raised"
    /\ exc' = TRUE
    /\ interrupted' = TRUE
    /\ UNCHANGED <<connected, clock, last_trade_time, dry_run, cycleVars, ghostVars>>

\* KeyboardInterrupt delivered while disconnect_mt5() runs (87): it propagates
\* and the session is released or not, depending on how far the call got
InterruptInFinally ==
    /\ pc = "finally"
    /\ pc' = "raised"
    /\ connected' \in {connected, FALSE}
    /\ interrupted' = TRUE
    /\ UNCHANGED <<exc, clock, last_trade_time, dry_run, cycleVars, ghostVars>>

\* line 85
PrintInterrupted ==
    /\ pc = "except"
    /\ pc' = "finally"
    /\ UNCHANGED <<connected, exc, interrupted, clock, last_trade_time, dry_run, cycleVars, ghostVars>>

\* line 87
Disconnect ==
    /\ pc = "finally"
    /\ connected' = FALSE
    /\ pc' = "disconnected"
    /\ UNCHANGED <<exc, interrupted, clock, last_trade_time, dry_run, cycleVars, ghostVars>>

\* line 88, then main_loop returns or the pending exception propagates
PrintDisconnected ==
    /\ pc = "disconnected"
    /\ pc' = AfterDisconnectPc(exc)
    /\ UNCHANGED <<connected, exc, interrupted, clock, last_trade_time, dry_run, cycleVars, ghostVars>>

\* the wall clock moves forward
ClockAdvance ==
    /\ pc \notin {"returned", "raised"}
    /\ clock < MaxTime
    /\ clock' = clock + 1
    /\ UNCHANGED <<pc, connected, exc, interrupted, last_trade_time, dry_run, cycleVars, ghostVars>>

\* the wall clock is set back
ClockStepBack ==
    /\ pc \notin {"returned", "raised"}
    /\ clock > 1
    /\ clock' = clock - 1
    /\ UNCHANGED <<pc, connected, exc, interrupted, last_trade_time, dry_run, cycleVars, ghostVars>>

\* a position of the symbol is closed (stop or target hit, closed by hand);
\* the number of positions is read by the loop only, so changes are followed
\* while the loop runs
PositionCloses ==
    /\ pc \in TryPcs
    /\ positions > 0
    /\ positions' = positions - 1
    /\ UNCHANGED <<pc, connected, exc, interrupted, clock, last_trade_time, dry_run, cycleVars,
                   called, order_sent, place_calls, sleeps, last_place_time>>

\* a position of the symbol is opened by someone else than this loop
PositionOpensElsewhere ==
    /\ pc \in TryPcs
    /\ positions < MaxOpen
    /\ positions' = positions + 1
    /\ UNCHANGED <<pc, connected, exc, interrupted, clock, last_trade_time, dry_run, cycleVars,
                   called, order_sent, place_calls, sleeps, last_place_time>>

\* the steps of the program, the clock moving forward, positions closing
Steps ==
    \/ Connect
    \/ ConnectFails
    \/ PrintConnected
    \/ FetchAndSignal
    \/ Throttle
    \/ CheckOpenPositions
    \/ CheckSignal
    \/ CheckAtr
    \/ QuoteAndLevels
    \/ EstimateLots
    \/ PlaceOrder
    \/ StampTradeTime
    \/ Sleep
    \/ CallRaises
    \/ InterruptInTry
    \/ InterruptBeforeTry
    \/ InterruptInHandler
    \/ InterruptInFinally
    \/ PrintInterrupted
    \/ Disconnect
    \/ PrintDisconnected
    \/ ClockAdvance
    \/ PositionCloses

Next ==
    \/ Steps
    \/ ClockStepBack
    \/ PositionOpensElsewhere

Spec == Init /\ [][Next]_vars

\* the wall clock never goes back
NextMono ==
    \/ Steps
    \/ PositionOpensElsewhere

SpecMono == Init /\ [][NextMono]_vars

\* positions of the symbol are opened by this loop only
NextOwn ==
    \/ Steps
    \/ ClockStepBack

SpecOwn == Init /\ [][NextOwn]_vars

TypeOK ==
    /\ pc \in TryPcs \cup {"start", "connected", "except", "finally", "disconnected", "returned", "raised"}
    /\ connected \in BOOLEAN /\ exc \in BOOLEAN /\ interrupted \in BOOLEAN
    /\ clock \in 1..MaxTime
    /\ last_trade_time \in 0..MaxTime
    /\ now \in 0..MaxTime
    /\ signal \in Signals
    /\ atr \in AtrValues
    /\ open_pos \in 0..(MaxOpen + 1)
    /\ res \in Retcodes \cup {"none", "skipped"}
    /\ dry_run \in BOOLEAN
    /\ called \subseteq {"count", "quote", "lots", "place"}
    /\ order_sent \in BOOLEAN
    /\ place_calls \in 0..2 /\ sleeps \in 0..2
    /\ last_place_time \in 0..MaxTime
    /\ positions \in 0..(MaxOpen + 1)

\* ------------------------------------------------------------------ claims
\* place_order has been invoked in the current iteration, or is the next call
PlaceReached == pc = "place" \/ "place" \in called

\* C1: time gate.  In an iteration whose reading of the clock (now) is less
\* than min_seconds_between_trades after a set last_trade_time, place_order is
\* not invoked, whatever the signal, the open-position count and the ATR are.
\* (last_trade_time is the value the gate saw until line 79 runs.)
C1_TimeGate ==
    (pc \in {"count", "signal", "atr", "quote", "lots", "place", "stamp"}
        /\ last_trade_time # None
        /\ now - last_trade_time < min_seconds_between_trades)
    => FALSE

C1_Witness ==
    /\ pc = "sleep5" /\ called = {} /\ signal = "buy"
    /\ last_trade_time # None /\ now # None
    /\ now - last_trade_time < min_seconds_between_trades

\* C2: exposure gate.  In an iteration in which count_open_positions returned
\* a count >= max_positions, place_order is not invoked.
C2_ExposureGate ==
    ("count" \in called /\ open_pos >= max_positions)
    => (~PlaceReached /\ pc \notin {"signal", "atr", "quote", "lots", "stamp"})

C2_Witness ==
    /\ pc = "sleep5" /\ called = {"count"} /\ signal = "buy"
    /\ open_pos = 1 /\ max_positions = 1

\* C3: when the ATR of the latest bar is NaN or <= 0, the iteration fetches no
\* quote, computes no stop/target and no lot size and does not invoke
\* place_order: from the ATR check it goes to the delay.
C3_InvalidAtrSkips ==
    (atr = NaN \/ atr <= 0)
    => (called \cap {"quote", "lots", "place"} = {}
        /\ pc \notin {"quote", "lots", "place", "stamp"})

C3_Witness ==
    /\ pc = "sleep5" /\ called = {"count"} /\ signal # "none"
    /\ open_pos < max_positions /\ atr = NaN

\* C4: bracket invariant.  Every order passed to place_order has
\* stopLoss < entryPrice < takeProfit for a buy and
\* takeProfit < entryPrice < stopLoss for a sell.
C4_Bracket ==
    PlaceReached =>
        /\ sl_price # NaN /\ tp_price # NaN
        /\ signal = "buy" => (sl_price < entry_price /\ entry_price < tp_price)
        /\ signal = "sell" => (tp_price < entry_price /\ entry_price < sl_price)
        /\ signal \in {"buy", "sell"}

C4_Witness == "place" \in called /\ signal = "sell" /\ tp_price < entry_price

\* C5: the volume of every place_order call is > 0; an iteration whose
\* computed lot size is <= 0 does not invoke place_order.
C5_PositiveVolume ==
    /\ PlaceReached => lots > 0
    /\ ("lots" \in called /\ lots <= 0) => (~PlaceReached /\ pc # "stamp")

C5_Witness == pc = "sleep5" /\ "lots" \in called /\ lots <= 0 /\ sl_price # entry_price

\* C6: once connected, the session is released on every exit path of
\* main_loop, and after an external interrupt main_loop returns normally.
C6_ReleasedOnEveryExit ==
    pc \in {"returned", "raised"}
    => (~connected /\ (interrupted => pc = "returned"))

\* C7: a connectivity error raised by a call of an iteration does not end the
\* loop; the only event that makes the loop leave Running is the interrupt.
C7_OnlyInterruptEndsLoop ==
    pc \in {"except", "finally", "disconnected", "returned"} => interrupted

\* C8: line 79 sets last_trade_time to the current time after every
\* place_order call that returns, whatever the broker's retcode was.
C8_StampAfterEveryAttempt ==
    [][(pc = "stamp" /\ pc' = "sleep10") => last_trade_time' = clock]_vars

C8_Witness ==
    /\ pc = "sleep10" /\ "place" \in called /\ res = "rejected"
    /\ last_trade_time # None /\ last_trade_time >= now

\* C9: last_trade_time only advances: each value assigned is >= the previous
\* one, and once set it is never reset to None.
C9_OnlyAdvances ==
    [][last_trade_time # None =>
        (last_trade_time' # None /\ last_trade_time' >= last_trade_time)]_vars

\* C10: with dry_run set, mt5.order_send is never invoked and every
\* place_order call returns the simulated, skipped result.
C10_DryRunNeverSends ==
    dry_run => (~order_sent /\ ("place" \in called => res = "skipped"))

C10_Witness == dry_run /\ "place" \in called /\ res = "skipped" /\ pc = "sleep10"

\* C11: the external stop signal is observed only at an iteration boundary,
\* before the next fetch_ohlc; it never cuts an iteration between its fetch
\* and its end (not between place_order and line 79, not inside a call).
C11_StopOnlyAtBoundary ==
    [][(pc \in TryPcs /\ ~interrupted /\ interrupted') => pc = "fetch"]_vars

\* C12: a broker rejection is not fatal and not retried: place_order returns
\* the result, the iteration goes on to line 79 and the delay, and place_order
\* is invoked at most once in an iteration.
C12_StepAfterRejection ==
    (res = "rejected" /\ pc \in {"stamp", "sleep10"} /\ pc' # pc) =>
        \/ pc = "stamp" /\ pc' = "sleep10"
        \/ pc = "sleep10" /\ pc' = "fetch"
        \/ pc' = "except" /\ interrupted'

C12_RejectionNoRetry ==
    /\ [](place_calls <= 1)
    /\ [][(pc = "place" /\ res' = "rejected") => (pc' = "stamp" /\ ~exc')]_vars
    /\ [][C12_StepAfterRejection]_vars

C12_Witness ==
    /\ pc = "sleep10" /\ res = "rejected" /\ place_calls = 1 /\ ~exc /\ ~interrupted

\* C13: the lifecycle is Disconnected -> Connected -> Running -> Disconnecting
\* -> Disconnected: the steps of an iteration run only in Running (connected,
\* inside the try block), Disconnecting (except/finally) is entered only from
\* Running, and after the release nothing reconnects and no iteration runs.
C13_EnterDisconnecting ==
    (pc' \in {"except", "finally"} /\ pc \notin {"except", "finally"}) => pc \in TryPcs

C13_AfterRunning ==
    pc \in {"except", "finally", "disconnected", "returned", "raised"} =>
        /\ pc' \notin TryPcs \cup {"start", "connected"}
        /\ connected' => connected
        /\ called' = called

C13_Lifecycle ==
    /\ [](pc \in TryPcs => connected)
    /\ [](pc \in {"start"} => ~connected)
    /\ [][(~connected /\ connected') => (pc = "start" /\ pc' = "connected")]_vars
    /\ [][(pc = "connected" /\ pc' # pc) => pc' \in {"fetch", "raised"}]_vars
    /\ [][(pc' \in TryPcs /\ pc \notin TryPcs) => (pc = "connected" /\ pc' = "fetch")]_vars
    /\ [][C13_EnterDisconnecting]_vars
    /\ [][C13_AfterRunning]_vars
    /\ [][(pc \in {"returned", "raised"}) => (pc' = pc)]_vars

C13_Witness == pc = "returned" /\ ~connected /\ interrupted /\ "place" \in called

\* C14 (as stated): stop/target are exactly entry -/+ multiplier * ATR, and
\* the scenario ATR 0.0010, entry 1.2000, multipliers 1.5 and 3.0, buy gives
\* 1.1985 and 1.2045 (4794 and 4818 in units of 0.00025).
C14_LevelsAsStated ==
    ("quote" \in called) =>
        /\ signal = "buy" => (sl_price = entry_price - atr_multiplier_sl * atr
                              /\ tp_price = entry_price + atr_multiplier_tp * atr)
        /\ signal = "sell" => (sl_price = entry_price + atr_multiplier_sl * atr
                               /\ tp_price = entry_price - atr_multiplier_tp * atr)
        /\ (signal = "buy" /\ entry_price = 4800 /\ atr = 2)
              => (sl_price = 4794 /\ tp_price = 4818)

\* C14 (amended): stop/target are the reference formulas evaluated in float
\* arithmetic, each sum rounded to a representable price; the scenario gives
\* 1.1985 and 1.2030 (4794 and 4812).
C14_LevelsRounded ==
    ("quote" \in called) =>
        /\ signal = "buy" => (sl_price = RoundToGrid(entry_price - atr_multiplier_sl * atr)
                              /\ tp_price = RoundToGrid(entry_price + atr_multiplier_tp * atr))
        /\ signal = "sell" => (sl_price = RoundToGrid(entry_price + atr_multiplier_sl * atr)
                               /\ tp_price = RoundToGrid(entry_price - atr_multiplier_tp * atr))
        /\ (signal = "buy" /\ entry_price = 4800 /\ atr = 2)
              => (sl_price = 4794 /\ tp_price = 4812)

C14_Witness ==
    /\ "place" \in called /\ signal = "buy" /\ entry_price = 4800 /\ atr = 2
    /\ sl_price = 4794 /\ tp_price = 4812

\* C15: a rejection by either gate ends the iteration before the quote and
\* the sizing: after a time-gate rejection none of count_open_positions,
\* symbol_info_tick, estimate_lots_by_sl has been called, after an
\* exposure-gate rejection neither symbol_info_tick nor estimate_lots_by_sl.
\* (Until place_order returns, last_trade_time is the value the gate saw.)
C15_GateShortCircuits ==
    /\ (now # None /\ "place" \notin called /\ last_trade_time # None
            /\ now - last_trade_time < min_seconds_between_trades)
        => called = {}
    /\ ("count" \in called /\ open_pos >= max_positions)
        => called \cap {"quote", "lots"} = {}

C15_Witness ==
    /\ pc = "sleep5" /\ called = {} /\ signal = "sell" /\ atr = 2
    /\ last_trade_time # None /\ now # None
    /\ now - last_trade_time < min_seconds_between_trades

\* C16: last_trade_time changes only at line 79 of an iteration in which
\* place_order was invoked and returned; an iteration that does not reach
\* place_order leaves it unchanged.
C16_OnlyAfterPlace ==
    [][(last_trade_time' # last_trade_time)
        => (pc = "stamp" /\ "place" \in called /\ place_calls = 1)]_vars

C16_Witness ==
    /\ pc = "fetch" /\ sleeps = 1 /\ "place" \notin called /\ signal = "none"
    /\ last_trade_time # None /\ clock # last_trade_time

\* C17: with a non-decreasing clock, two consecutive invocations of
\* place_order are at least min_seconds_between_trades apart (return of the
\* first to call of the second), whatever the first result was.
C17_Spacing ==
    (pc = "place" /\ last_place_time # None)
    => clock - last_place_time >= min_seconds_between_trades

C17_Witness == pc = "stamp" /\ last_trade_time # None /\ res = "done"

\* C18: every iteration sleeps exactly once between its fetch_ohlc and the
\* next one, on each of its paths.
C18_EnterFetch ==
    (pc' = "fetch" /\ pc # "fetch") =>
        \/ pc = "connected" /\ sleeps' = 0
        \/ pc \in {"sleep5", "sleep10"} /\ sleeps' = 1

C18_OneSleepPerIteration ==
    /\ [](sleeps <= 1)
    /\ [](pc \in TryPcs \ {"fetch"} => sleeps = 0)
    /\ [][C18_EnterFetch]_vars

C18_Witness == pc = "fetch" /\ sleeps = 1 /\ signal = "none" /\ called = {"count"}

\* C19: when positions of the symbol are opened by accepted orders of this
\* loop only and the count starts at or below max_positions, the number of
\* open positions never exceeds max_positions.
C19_ExposureBound == positions <= max_positions

C19_Witness == positions = max_positions /\ res = "done" /\ pc = "sleep10" /\ open_pos = 0
====
